---- MODULE Spec2Model ----
(***************************************************************************)
(* A model of package cmdsync of alexchao26/oneterminal: Group.RunContext  *)
(* (src/cmdsync/group.go) scheduling ShellCmds (src/unnamed/part_002).     *)
(*                                                                         *)
(* Goroutines are interleaved at the points where they touch shared state: *)
(* the shared context, the ready flags, the exec.Cmd process handles, the  *)
(* errgroup's first error and the output sink.                             *)
(*                                                                         *)
(* Besides the Group (Spec, FairSpec, OutSpec, GroupSpec), the module has  *)
(* prefixEveryline on texts of bytes (PrefixSpec), NewShellCmd and its     *)
(* options (NewSpec), and ShellCmd.Write on chunks of bytes (WriteSpec).   *)
(* The Group is also run by Group.Run under interrupt signals (RunSpec),   *)
(* with AddCommands calls between the steps of RunContext (AddSpec), with  *)
(* a repeated name (DupSpec), with a dependency cycle (CycleSpec), and     *)
(* well-formed with processes that all end with status zero (GoodSpec).    *)
(***************************************************************************)
EXTENDS Naturals, Sequences, FiniteSets, TLC

\* ------------------------------------------------------------------ bounds
\* number of ShellCmds in the largest Group
NumUnits == 2
\* size of a Group's configuration: its number of units, plus its number of
\* dependsOn entries, plus the number of chunks its commands write
MaxLoad == 4

\* number of calls of SendInterrupts by the Group's user
MaxCalls == 1
\* size of the configuration of a Group whose commands write and match
\* their output: the square of its number of units (the goroutines and the
\* process of a unit interleave with those of every unit), plus its number
\* of dependsOn entries, of chunks its commands write, and of SilenceOutput
MaxOutLoad == 8

\* number of ShellCmds of the program: those of a Group of NumUnits units and
\* one more, for the Groups in which two units bear the same name and another
\* one depends on that name
MaxUnits == 3

Units == 1 .. MaxUnits

\* length of the longest text handed to prefixEveryline
MaxText == 4
\* length of the longest prefix handed to prefixEveryline
MaxPrefix == 1

\* number of options handed to NewShellCmd
MaxOptions == 2

\* length of the longest chunk a process hands to Write
MaxChunk == 2
\* size of a run of ShellCmds that write bytes: the square of the number of
\* ShellCmds, plus the number of their CmdName, SetColor, SilenceOutput and
\* ReadyPattern options, plus the number of Write calls and of the bytes
\* handed to them
MaxWriteLoad == 10
MaxSignals == 2
\* size of the configuration of a Group with a dependency cycle, counted as
\* MaxLoad is
MaxCycleLoad == 6

\* ------------------------------------------------------------------ errors
\* error values: kind, and for fmt.Errorf("%s: %w", cmd.name, err) the name
\* the error is wrapped with; dep is the name a dependency error is about
Err(kind, dep) == [kind |-> kind, wrapped |-> FALSE, cmd |-> 0, dep |-> dep]
NilErr == Err("nil", 0)
Canceled == Err("context canceled", 0)
Wrap(name, err) == [err EXCEPT !.wrapped = TRUE, !.cmd = name]

\* ------------------------------------------------------------------- state
VARIABLES
    cfg,          \* per unit: the ShellCmd fields set by the options (name, dependsOn,
                  \* silenceOutput, readyPattern) and chunks, the number of chunks
                  \* its command writes; readyPattern is 0 for nil, and else the
                  \* number of the chunk the pattern matches
    commands,     \* Group.commands
    hasStarted,   \* Group.hasStarted
    rc,           \* RunContext: "idle" (not called), "wait" (in eg.Wait), "returned"
    result,       \* what RunContext returned
    preCancelled, \* the context the caller passes is cancelled before the call
    ctxDone,      \* the errgroup's derived context is cancelled
    cancelledBy,  \* history: who cancelled the derived context first:
                  \* "none", "caller", "worker", "wait" (eg.Wait on its way out)
    canceller,    \* history: the unit whose worker cancelled it (0: not a worker)
    namesToCmds,  \* the name index built by RunContext
    egErr,        \* errgroup: the first non-nil error (errOnce)
    firstFail,    \* history: the unit whose worker was the first to return a non-nil result (0: none)
    wpc,          \* per unit: where its worker goroutine is:
                  \* "none", "poll" (in the select), "run" (cmd.Run called),
                  \* "wait" (in command.Wait), "ret" (cmd.Run returned), "done"
    werr,         \* per unit: what cmd.Run returned, then what the worker returned
    lastPoll,     \* history: per unit, what its latest checkDependencies call found:
                  \* "none", "wait", "ok", "missing", "self"
    ready,        \* ShellCmd.ready
    proc,         \* exec.Cmd.Process: "nil", "running", "exited"
    runs,         \* history: number of cmd.Run calls per unit
    intr,         \* history: per unit, number of Interrupt() calls
    sig,          \* history: per unit, "none", "live" (SIGINT reached the running process), "dead"
    sup,          \* the supervisory goroutine: "none", "wait", "send", "done"
    supIdx,       \* SendInterrupts: index of the next command in its loop
    nout,         \* per unit: chunks its process has written
    sink,         \* the shared output (os.Stdout): the units whose chunks were written, in order
    status,       \* history: per unit, how its process ended ("none": it has not)
    addRes,       \* history: what the latest AddCommands call returned ("none": no call yet)
    calls,        \* history: number of SendInterrupts calls by the Group's user
    callArgs,     \* the arguments of a call of prefixEveryline or NewShellCmd
    callRet,      \* what that call returned (NoCall: it has not returned)
    shc,          \* per unit: the ShellCmd fields Write reads, as strings (name,
                  \* ansiColor, silenceOutput, readyPattern)
    stdout,       \* the bytes written to os.Stdout, each with the unit and the
                  \* number of the Write call it comes from
    wlog,         \* history: per unit, the Write calls: the chunk, and n and err returned
    wpend,        \* per unit: the os.Stdout.Write calls its Write call has still to make
    notify,       \* the signal registration of Group.Run: "none" (Run is not used), "on",
                  \* "caught" (the signal came, the registration is still there), "off"
    osSigs        \* history: what became of each interrupt signal sent to the program

confVars == <<cfg, commands>>
callVars == <<hasStarted, rc, result, preCancelled, namesToCmds>>
ctxVars == <<ctxDone, cancelledBy, canceller>>
egVars == <<egErr, firstFail>>
workVars == <<wpc, werr, lastPoll, runs>>
cmdVars == <<ready, proc>>
supVars == <<sup, supIdx>>
intrVars == <<intr, sig>>
outVars == <<nout, sink>>
histVars == <<status, addRes, calls>>
unitVars == <<callArgs, callRet, shc, stdout, wlog, wpend>>
sigVars == <<notify, osSigs>>

vars == <<confVars, callVars, ctxVars, egVars, workVars, cmdVars, supVars, intrVars, outVars,
          histVars, unitVars, sigVars>>

\* ----------------------------------------------------------- configuration
RECURSIVE SeqsUpTo(_, _)
SeqsUpTo(S, n) ==
    IF n = 0 THEN {<<>>}
    ELSE LET shorter == SeqsUpTo(S, n - 1)
         IN shorter \cup {Append(s, x) : s \in shorter, x \in S}

Range(s) == {s[i] : i \in DOMAIN s}

\* a unit outside the Group
NoCmd == [name |-> 0, dependsOn |-> <<>>, chunks |-> 0, silenceOutput |-> FALSE,
          readyPattern |-> 0]

\* the ShellCmds named name of a Group of k units, of load at most b:
\* dependsOn holds names of the Group or k + 1, a name no unit of it bears
Cmds(name, k, b) ==
    {[name |-> name, dependsOn |-> d, chunks |-> n, silenceOutput |-> FALSE,
      readyPattern |-> 0] :
        d \in SeqsUpTo(1 .. k + 1, b), n \in 0 .. b}

Load(cmd) == Len(cmd.dependsOn) + cmd.chunks

\* the first j units of the Groups of k units, of load at most b; unit u
\* is named u (names are unique)
RECURSIVE Groups(_, _, _)
Groups(j, k, b) ==
    IF j = 0 THEN {<<>>}
    ELSE UNION {{Append(g, cmd) : g \in Groups(j - 1, k, b - Load(cmd))} :
                    cmd \in {c \in Cmds(j, k, b) : Load(c) <= b}}

Configs(k) ==
    {[u \in Units |-> IF u <= k THEN g[u] ELSE NoCmd] : g \in Groups(k, k, MaxLoad - k)}

\* a Group before RunContext, whose ShellCmds have no process yet
NotStarted ==
    /\ hasStarted = FALSE
    /\ rc = "idle"
    /\ result = NilErr
    /\ preCancelled = FALSE
    /\ ctxDone = FALSE
    /\ cancelledBy = "none"
    /\ canceller = 0
    /\ namesToCmds = <<>>
    /\ egErr = NilErr
    /\ firstFail = 0
    /\ wpc = [u \in Units |-> "none"]
    /\ werr = [u \in Units |-> NilErr]
    /\ lastPoll = [u \in Units |-> "none"]
    /\ ready = [u \in Units |-> FALSE]
    /\ proc = [u \in Units |-> "nil"]
    /\ runs = [u \in Units |-> 0]
    /\ intr = [u \in Units |-> 0]
    /\ sig = [u \in Units |-> "none"]
    /\ sup = "none"
    /\ supIdx = 1
    /\ nout = [u \in Units |-> 0]
    /\ sink = <<>>
    /\ status = [u \in Units |-> "none"]
    /\ addRes = "none"
    /\ calls = 0

\* no call of prefixEveryline or of NewShellCmd on its own
NoCall == [fn |-> "none"]
Unused == callArgs = NoCall /\ callRet = NoCall

\* a ShellCmd made without CmdName, SetColor, SilenceOutput and ReadyPattern
\* (readyPattern is <<>> for nil, and else holds the pattern that was compiled)
BareShellCmd == [name |-> <<>>, ansiColor |-> <<>>, silenceOutput |-> FALSE,
                 readyPattern |-> <<>>]

\* nothing was written by a ShellCmd run on its own
NoBytes ==
    /\ shc = [u \in Units |-> BareShellCmd]
    /\ stdout = <<>>
    /\ wlog = [u \in Units |-> <<>>]
    /\ wpend = [u \in Units |-> <<>>]

\* RunContext is called by the Group's user, not by Group.Run: no signal
\* registration, and no signal is sent to the program
NoSignals == notify = "none" /\ osSigs = <<>>

\* NewGroup(commands...) with k commands
Init ==
    /\ \E k \in 0 .. NumUnits :
         /\ k <= MaxLoad
         /\ commands = [i \in 1 .. k |-> i]
         /\ cfg \in Configs(k)
    /\ NotStarted
    /\ Unused
    /\ NoBytes
    /\ NoSignals

\* the ShellCmds named name of a Group of k units that write and match their
\* output: SilenceOutput and ReadyPattern may be given, and dependsOn holds
\* names of units that come earlier in the Group
OutCmds(name, k, b) ==
    {[name |-> name, dependsOn |-> d, chunks |-> n, silenceOutput |-> q,
      readyPattern |-> m] :
        d \in SeqsUpTo(1 .. name - 1, b), n \in 0 .. b, q \in BOOLEAN, m \in 0 .. b}

OutLoad(cmd) == Len(cmd.dependsOn) + cmd.chunks + (IF cmd.silenceOutput THEN 1 ELSE 0)

RECURSIVE OutGroups(_, _, _)
OutGroups(j, k, b) ==
    IF j = 0 THEN {<<>>}
    ELSE UNION {{Append(g, cmd) : g \in OutGroups(j - 1, k, b - OutLoad(cmd))} :
                    cmd \in {c \in OutCmds(j, k, b) :
                                OutLoad(c) <= b /\ c.readyPattern <= c.chunks}}

OutConfigs(k) ==
    {[u \in Units |-> IF u <= k THEN g[u] ELSE NoCmd] :
        g \in OutGroups(k, k, MaxOutLoad - k * k)}

\* NewGroup(commands...) with k commands that write output
OutInit ==
    /\ \E k \in 1 .. NumUnits :
         /\ k * k <= MaxOutLoad
         /\ commands = [i \in 1 .. k |-> i]
         /\ cfg \in OutConfigs(k)
    /\ NotStarted
    /\ Unused
    /\ NoBytes
    /\ NoSignals

\* ----------------------------------------------------------------- strings
\* a string is the sequence of its bytes
NL == "\n"
Bar == <<" ", "|", " ">>

\* the bytes of the texts, and of the prefixes
TextBytes == {"a", "p", NL}
PrefixBytes == {"p"}

\* s has t at position i
HasAt(s, t, i) == i + Len(t) - 1 <= Len(s) /\ SubSeq(s, i, i + Len(t) - 1) = t

\* the number of places where s has t
Occurrences(s, t) == Cardinality({i \in 1 .. Len(s) : HasAt(s, t, i)})

\* strings.Split(s, "\n"): the pieces between the newlines, at least one
RECURSIVE Split(_)
Split(s) ==
    IF s = <<>> THEN << <<>> >>
    ELSE LET r == Split(SubSeq(s, 1, Len(s) - 1))
             c == s[Len(s)]
         IN IF c = NL THEN Append(r, <<>>) ELSE [r EXCEPT ![Len(r)] = Append(@, c)]

\* strings.Join(elems, sep)
RECURSIVE Join(_, _)
Join(elems, sep) ==
    IF elems = <<>> THEN <<>>
    ELSE IF Len(elems) = 1 THEN elems[1]
    ELSE elems[1] \o sep \o Join(Tail(elems), sep)

\* if len(lines) > 0 && lines[len(lines)-1] == "" { lines = lines[:len(lines)-1] }
dropLastEmpty(lines) ==
    IF Len(lines) > 0 /\ lines[Len(lines)] = <<>>
    THEN SubSeq(lines, 1, Len(lines) - 1)
    ELSE lines

\* faulty variant: only the first line gets the prefix (lines joined with "\n")
prefixFirstLineOnly(in, prefix) ==
    prefix \o Bar \o Join(dropLastEmpty(Split(in)), <<NL>>) \o <<NL>>

\* faulty variant: the empty piece after a final newline is kept
prefixKeepsLastEmpty(in, prefix) ==
    prefix \o Bar \o Join(Split(in), <<NL>> \o prefix \o Bar) \o <<NL>>

\* prefixEveryline: prefix + " | " + the lines joined with "\n" + prefix +
\* " | ", + "\n"
prefixEveryline(in, prefix) ==
    prefix \o Bar \o Join(dropLastEmpty(Split(in)), <<NL>> \o prefix \o Bar) \o <<NL>>

\* ------------------------------------------------------------- NewShellCmd
\* the shell arguments: the allowed ones, none, and one that is not allowed
Shells == {"", "zsh", "bash", "sh", "fish"}
allowedShells == {"zsh", "bash", "sh"}

\* if shell == "" { shell = "zsh" }
shellOrDefault(shell) == IF shell = "" THEN "zsh" ELSE shell

\* the directories that exist (what os.Stat finds), and the value of $HOME
Existing == {<<"/", "srv">>, <<"/", "home">>, <<"/", "home", "/", "srv">>}
Home == <<"/", "home">>

\* the arguments of CmdDir: paths, some of them under '~'
Dirs == {<<"/", "srv">>, <<"/", "gone">>, <<"~">>, <<"~", "/", "srv">>, <<"~", "/", "gone">>}

\* CmdDir: a leading '~' becomes $HOME, which os.ExpandEnv replaces
expandDir(dir) == IF dir[1] = "~" THEN Home \o Tail(dir) ELSE dir

\* the arguments of ReadyPattern: literals, and groups well or badly closed
Patterns == {<<>>, <<"a">>, <<"a", "a">>, <<"(", "a", ")">>, <<"(", "a">>, <<"a", ")">>}

\* the depth of open groups after the first i bytes of p (-1: a ")" closed
\* a group that was not open)
RECURSIVE depth(_, _)
depth(p, i) ==
    IF i = 0 THEN 0
    ELSE LET d == depth(p, i - 1)
         IN IF d < 0 THEN d
            ELSE IF p[i] = "(" THEN d + 1
            ELSE IF p[i] = ")" THEN d - 1
            ELSE d

\* regexp.Compile(p) returns no error: every group is closed, none is
\* closed that was not open
compiles(p) == depth(p, Len(p)) = 0

\* the options NewShellCmd is given
Options ==
    {[opt |-> "CmdDir", arg |-> d] : d \in Dirs}
    \cup {[opt |-> "ReadyPattern", arg |-> q] : q \in Patterns}
    \cup {[opt |-> "CmdName", arg |-> <<"p">>], [opt |-> "SilenceOutput", arg |-> <<>>]}

\* the errors of NewShellCmd and of its options, with what they are about
OptErr(kind, arg) == [kind |-> kind, arg |-> arg]
NoOptErr == OptErr("nil", <<>>)

\* the nil *ShellCmd
NilShellCmd == [nil |-> TRUE]

\* s := &ShellCmd{command: execCmd} with execCmd = exec.Command(shell, "-c",
\* command): no process yet
newShellCmd(shell) ==
    [name |-> <<>>, ansiColor |-> <<>>, silenceOutput |-> FALSE, readyPattern |-> <<>>,
     command |-> [path |-> shell, dir |-> <<>>, process |-> "nil"]]

\* opt(s): the ShellCmd after the option, and the error it returns
applyOption(s, o) ==
    CASE o.opt = "CmdDir" ->
            IF expandDir(o.arg) \notin Existing
            THEN [cmd |-> s, err |-> OptErr("directory does not exist", o.arg)]
            ELSE [cmd |-> [s EXCEPT !.command.dir = expandDir(o.arg)], err |-> NoOptErr]
      [] o.opt = "ReadyPattern" ->
            IF ~compiles(o.arg)
            THEN [cmd |-> s, err |-> OptErr("compiling regexp", o.arg)]
            ELSE [cmd |-> [s EXCEPT !.readyPattern = <<o.arg>>], err |-> NoOptErr]
      [] o.opt = "CmdName" -> [cmd |-> [s EXCEPT !.name = o.arg], err |-> NoOptErr]
      [] o.opt = "SilenceOutput" ->
            [cmd |-> [s EXCEPT !.silenceOutput = TRUE], err |-> NoOptErr]

\* faulty variant: the error of an option is not looked at
RECURSIVE applyOptionsUnchecked(_, _, _)
applyOptionsUnchecked(s, options, i) ==
    IF i > Len(options) THEN [cmd |-> s, err |-> NoOptErr, applied |-> Len(options)]
    ELSE applyOptionsUnchecked(applyOption(s, options[i]).cmd, options, i + 1)

\* the loop over the options from the i-th on: the first error ends it, and
\* NewShellCmd returns nil and that error; applied counts the options called
RECURSIVE applyOptions(_, _, _)
applyOptions(s, options, i) ==
    IF i > Len(options) THEN [cmd |-> s, err |-> NoOptErr, applied |-> Len(options)]
    ELSE LET r == applyOption(s, options[i])
         IN IF r.err # NoOptErr
            THEN [cmd |-> NilShellCmd, err |-> r.err, applied |-> i]
            ELSE applyOptions(r.cmd, options, i + 1)

\* NewShellCmd(shell, command, options...)
NewShellCmd(shell, options) ==
    IF shellOrDefault(shell) \notin allowedShells
    THEN [cmd |-> NilShellCmd, err |-> OptErr("shell not supported", <<shell>>), applied |-> 0]
    ELSE applyOptions(newShellCmd(shellOrDefault(shell)), options, 1)

\* ------------------------------------------------------------------- Group
\* faulty variant: a name that is in the index already keeps its unit
RECURSIVE BuildIndexFirst(_, _, _)
BuildIndexFirst(c, cmds, k) ==
    IF k = 0 THEN <<>>
    ELSE LET m == BuildIndexFirst(c, cmds, k - 1)
             nm == c[cmds[k]].name
         IN [n \in (DOMAIN m) \cup {nm} |-> IF n \in DOMAIN m THEN m[n] ELSE cmds[k]]

\* the loop namesToCmds[cmd.name] = cmd over the first k commands
RECURSIVE BuildIndex(_, _, _)
BuildIndex(c, cmds, k) ==
    IF k = 0 THEN <<>>
    ELSE LET m == BuildIndex(c, cmds, k - 1)
             nm == c[cmds[k]].name
         IN [n \in (DOMAIN m) \cup {nm} |-> IF n = nm THEN cmds[k] ELSE m[n]]

\* RunContext up to eg.Wait: sets hasStarted, builds the index, derives the
\* errgroup's context (done at once when the caller's is), starts the
\* supervisory goroutine and one worker goroutine per command
RunContext ==
    /\ rc = "idle"
    /\ rc' = "wait"
    /\ hasStarted' = TRUE
    /\ namesToCmds' = BuildIndex(cfg, commands, Len(commands))
    /\ ctxDone' = preCancelled
    /\ cancelledBy' = IF preCancelled THEN "caller" ELSE "none"
    /\ sup' = "wait"
    /\ wpc' = [u \in Units |-> IF u \in Range(commands) THEN "poll" ELSE "none"]
    /\ UNCHANGED <<sigVars, unitVars, histVars, confVars, result, preCancelled, canceller, egVars, werr, lastPoll,
                   runs, cmdVars, supIdx, intrVars, outVars>>

\* faulty variant: RunContext does not set hasStarted
startedUnset == FALSE

\* g.hasStarted = true, between g.mut.Lock() and g.mut.Unlock()
startedUnderLock == TRUE

\* RunContext in the three steps that read or write the Group's fields, for
\* the calls of AddCommands that come in between. First: hasStarted is set
\* under the lock
RunContextLock ==
    /\ rc = "idle"
    /\ rc' = "locked"
    /\ hasStarted' = startedUnderLock
    /\ UNCHANGED <<sigVars, unitVars, histVars, confVars, result, preCancelled, namesToCmds, ctxVars,
                   egVars, workVars, cmdVars, supVars, intrVars, outVars>>

\* second: the loop over g.commands that fills namesToCmds, without the lock
RunContextIndex ==
    /\ rc = "locked"
    /\ rc' = "indexed"
    /\ namesToCmds' = BuildIndex(cfg, commands, Len(commands))
    /\ UNCHANGED <<sigVars, unitVars, histVars, confVars, hasStarted, result, preCancelled, ctxVars,
                   egVars, workVars, cmdVars, supVars, intrVars, outVars>>

\* third: errgroup.WithContext, the supervisory goroutine, and the loop over
\* g.commands that starts the workers, without the lock
RunContextGo ==
    /\ rc = "indexed"
    /\ rc' = "wait"
    /\ ctxDone' = preCancelled
    /\ cancelledBy' = IF preCancelled THEN "caller" ELSE "none"
    /\ sup' = "wait"
    /\ wpc' = [u \in Units |-> IF u \in Range(commands) THEN "poll" ELSE "none"]
    /\ UNCHANGED <<sigVars, unitVars, histVars, confVars, hasStarted, result, preCancelled, namesToCmds,
                   canceller, egVars, werr, lastPoll, runs, cmdVars, supIdx, intrVars, outVars>>

\* the caller cancels the context it passes to RunContext: before the call,
\* or during it, which cancels the context derived from it
CancelByCaller ==
    /\ \/ /\ rc = "idle"
          /\ ~preCancelled
          /\ preCancelled' = TRUE
          /\ UNCHANGED <<ctxDone, cancelledBy>>
       \/ /\ rc = "wait"
          /\ ~ctxDone
          /\ ctxDone' = TRUE
          /\ cancelledBy' = "caller"
          /\ UNCHANGED preCancelled
    /\ UNCHANGED <<sigVars, unitVars, histVars, confVars, hasStarted, rc, result, namesToCmds, canceller, egVars,
                   workVars, cmdVars, supVars, intrVars, outVars>>

\* faulty variant: a name that is not in the index is skipped (if !ok { continue })
RECURSIVE checkFromSkipAbsent(_, _, _, _, _)
checkFromSkipAbsent(name, deps, i, allCmdsMap, rdy) ==
    IF i > Len(deps) THEN [res |-> "ok", dep |-> 0]
    ELSE IF deps[i] \notin DOMAIN allCmdsMap
         THEN checkFromSkipAbsent(name, deps, i + 1, allCmdsMap, rdy)
    ELSE IF name = deps[i] THEN [res |-> "self", dep |-> deps[i]]
    ELSE IF ~rdy[allCmdsMap[deps[i]]] THEN [res |-> "wait", dep |-> deps[i]]
    ELSE checkFromSkipAbsent(name, deps, i + 1, allCmdsMap, rdy)

\* faulty variant: the test cmd.name == depName is left out
RECURSIVE checkFromNoSelfTest(_, _, _, _, _)
checkFromNoSelfTest(name, deps, i, allCmdsMap, rdy) ==
    IF i > Len(deps) THEN [res |-> "ok", dep |-> 0]
    ELSE IF deps[i] \notin DOMAIN allCmdsMap THEN [res |-> "missing", dep |-> deps[i]]
    ELSE IF ~rdy[allCmdsMap[deps[i]]] THEN [res |-> "wait", dep |-> deps[i]]
    ELSE checkFromNoSelfTest(name, deps, i + 1, allCmdsMap, rdy)

\* the loop of checkDependencies from the i-th name of dependsOn on:
\* "missing", "self", "wait" (canStart false, no error) or "ok" (canStart)
RECURSIVE checkFrom(_, _, _, _, _)
checkFrom(name, deps, i, allCmdsMap, rdy) ==
    IF i > Len(deps) THEN [res |-> "ok", dep |-> 0]
    ELSE IF deps[i] \notin DOMAIN allCmdsMap THEN [res |-> "missing", dep |-> deps[i]]
    ELSE IF name = deps[i] THEN [res |-> "self", dep |-> deps[i]]
    ELSE IF ~rdy[allCmdsMap[deps[i]]] THEN [res |-> "wait", dep |-> deps[i]]
    ELSE checkFrom(name, deps, i + 1, allCmdsMap, rdy)

\* faulty variant: dependsOn is not looked at
checkDependenciesNone(cmd, allCmdsMap, rdy) == [res |-> "ok", dep |-> 0]

\* faulty variant: checkDependencies never finds the dependencies ready
checkDependenciesWaits(cmd, allCmdsMap, rdy) == [res |-> "wait", dep |-> 0]

\* faulty variant: the readiness test inverted (if depCmd.IsReady() { return false, nil })
checkDependenciesInverted(cmd, allCmdsMap, rdy) ==
    checkFrom(cmd.name, cmd.dependsOn, 1, allCmdsMap, [u \in Units |-> ~rdy[u]])

\* faulty variant: checkDependencies does not ask IsReady()
checkDependenciesNoReady(cmd, allCmdsMap, rdy) ==
    checkFrom(cmd.name, cmd.dependsOn, 1, allCmdsMap, [u \in Units |-> TRUE])

checkDependencies(cmd, allCmdsMap, rdy) ==
    checkFrom(cmd.name, cmd.dependsOn, 1, allCmdsMap, rdy)

\* the errors of checkDependencies, as the worker wraps them
depError(cmd, chk) == Wrap(cmd.name, Err(chk.res, chk.dep))

\* ---------------------------------------------------------------- errgroup
\* faulty variant: no error is kept
errNone(cur, err) == cur

\* faulty variant: every non-nil error overwrites the one kept
errLast(cur, err) == err

\* errOnce.Do: only the first non-nil error is kept
errOnce(cur, err) == IF cur = NilErr THEN err ELSE cur

\* faulty variant: the worker does not return, its loop goes on
afterReturnLoops == "poll"

\* the worker after one of the returns of its loop: the goroutine is over
afterReturn == "done"

\* the wrapper eg.Go runs around the worker function, for a worker that
\* returns err: a non-nil result goes through errOnce, which also cancels the
\* derived context; then wg.Done
egGo(u, err) ==
    /\ wpc' = [wpc EXCEPT ![u] = afterReturn]
    /\ werr' = [werr EXCEPT ![u] = err]
    /\ IF err # NilErr
       THEN /\ egErr' = errOnce(egErr, err)
            /\ firstFail' = IF firstFail = 0 THEN u ELSE firstFail
            /\ ctxDone' = TRUE
            /\ cancelledBy' = IF ctxDone THEN cancelledBy ELSE "worker"
            /\ canceller' = IF ctxDone THEN canceller ELSE u
       ELSE UNCHANGED <<egVars, ctxVars>>

\* faulty variant: eg.Wait returns as soon as one worker is done
egWaitAny(cmds, pcs) == \E u \in Range(cmds) : pcs[u] = "done"

\* eg.Wait blocks on the WaitGroup: one Done per worker
egWait(cmds, pcs) == \A u \in Range(cmds) : pcs[u] = "done"

\* RunContext returns what eg.Wait returns; eg.Wait cancels the derived
\* context on its way out
RunContextReturn ==
    /\ rc = "wait"
    /\ egWait(commands, wpc)
    /\ rc' = "returned"
    /\ result' = egErr
    /\ ctxDone' = TRUE
    /\ cancelledBy' = IF ctxDone THEN cancelledBy ELSE "wait"
    /\ UNCHANGED <<sigVars, unitVars, histVars, confVars, hasStarted, preCancelled, namesToCmds, canceller, egVars,
                   workVars, cmdVars, supVars, intrVars, outVars>>

\* ------------------------------------------------------------- the workers
\* select: case <-ctx.Done(): return ctx.Err()
PollDone(u) ==
    /\ wpc[u] = "poll"
    /\ ctxDone
    /\ egGo(u, Canceled)
    /\ UNCHANGED <<sigVars, unitVars, histVars, confVars, callVars, lastPoll, runs, cmdVars, supVars, intrVars,
                   outVars>>

\* select takes the tick case whenever a tick is pending, whether or not
\* the context is done: among the cases that can proceed it picks at random
selectTick(done) == TRUE

\* select: case <-ticker.C: then checkDependencies; an error ends the
\* worker, and on canStart it stops the ticker and calls cmd.Run
PollTick(u) ==
    /\ wpc[u] = "poll"
    /\ selectTick(ctxDone)
    /\ LET chk == checkDependencies(cfg[u], namesToCmds, ready)
       IN /\ lastPoll' = [lastPoll EXCEPT ![u] = chk.res]
          /\ CASE chk.res \in {"missing", "self"} ->
                    /\ egGo(u, depError(cfg[u], chk))
                    /\ UNCHANGED runs
               [] chk.res = "ok" ->
                    /\ wpc' = [wpc EXCEPT ![u] = "run"]
                    /\ runs' = [runs EXCEPT ![u] = @ + 1]
                    /\ UNCHANGED <<werr, egVars, ctxVars>>
               [] chk.res = "wait" ->
                    UNCHANGED <<wpc, werr, runs, egVars, ctxVars>>
    /\ UNCHANGED <<sigVars, unitVars, histVars, confVars, callVars, cmdVars, supVars, intrVars, outVars>>

\* ---------------------------------------------------------------- ShellCmd
\* ShellCmd.Run, first half: command.Start() spawns the process (Process is
\* set) or fails, and then Run returns the error without touching ready
Run(u) ==
    /\ wpc[u] = "run"
    /\ \E spawned \in BOOLEAN :
         IF spawned
         THEN /\ proc' = [proc EXCEPT ![u] = "running"]
              /\ wpc' = [wpc EXCEPT ![u] = "wait"]
              /\ UNCHANGED <<werr, egVars, ctxVars>>
         ELSE /\ egGo(u, Wrap(cfg[u].name, Err("failed to start command", 0)))
              /\ UNCHANGED proc
    /\ UNCHANGED <<sigVars, unitVars, histVars, confVars, callVars, lastPoll, runs, ready, supVars, intrVars,
                   outVars>>

\* faulty variant: ready follows the latest chunk (s.ready = s.readyPattern.Match(in))
readyIsMatch(r, matched) == matched

\* faulty variant: the match is not looked at
readyIgnoresMatch(r, matched) == r

\* Write: if s.readyPattern != nil && s.readyPattern.Match(in) { s.ready = true }
readyAfterWrite(r, matched) == r \/ matched

\* faulty variant: Write does not look at silenceOutput
sinkAlways(out, u, silent) == Append(out, u)

\* Write: nothing goes to os.Stdout if s.silenceOutput, else the chunk does
sinkAfterWrite(out, u, silent) == IF silent THEN out ELSE Append(out, u)

\* ShellCmd.Write: the running process hands a chunk to its Stdout/Stderr
Write(u) ==
    /\ wpc[u] = "wait"
    /\ proc[u] = "running"
    /\ nout[u] < cfg[u].chunks
    /\ nout' = [nout EXCEPT ![u] = @ + 1]
    /\ ready' = [ready EXCEPT ![u] =
                    readyAfterWrite(@, cfg[u].readyPattern # 0
                                          /\ cfg[u].readyPattern = nout[u] + 1)]
    /\ sink' = sinkAfterWrite(sink, u, cfg[u].silenceOutput)
    /\ UNCHANGED <<sigVars, unitVars, histVars, confVars, callVars, ctxVars, egVars, workVars, proc, supVars,
                   intrVars>>

\* the ways a process can end, by itself or on SIGINT
ExitStatuses == {"exit status 0", "exit status 1"}

\* faulty variant: the worker returns nil whatever the exit status
runErrorNil(name, st) == NilErr

\* faulty variant: the worker returns the exit error as it is
runErrorBare(name, st) == IF st = "exit status 0" THEN NilErr ELSE Err(st, 0)

\* what the worker makes of what command.Wait() returned: nil for status
\* zero, else the exit error wrapped with the name
runError(name, st) == IF st = "exit status 0" THEN NilErr ELSE Wrap(name, Err(st, 0))

\* faulty variant: Run returns while the process runs on
procStillRunning == "running"

\* command.Wait() returns once the process has exited
procAfterWait == "exited"

\* faulty variant: Run forgets to set ready
readyUnchanged(r) == r

\* the value of ready when Run returns from command.Wait()
readyAfterWait(r) == TRUE

\* ShellCmd.Run, second half: the process ends, command.Wait() returns its
\* exit error, ready is set and Run returns
Wait(u) ==
    /\ wpc[u] = "wait"
    /\ proc[u] = "running"
    /\ \E st \in ExitStatuses :
         /\ status' = [status EXCEPT ![u] = st]
         /\ werr' = [werr EXCEPT ![u] = runError(cfg[u].name, st)]
    /\ proc' = [proc EXCEPT ![u] = procAfterWait]
    /\ ready' = [ready EXCEPT ![u] = readyAfterWait(@)]
    /\ wpc' = [wpc EXCEPT ![u] = "ret"]
    /\ UNCHANGED <<sigVars, unitVars, addRes, calls, confVars, callVars, ctxVars, egVars, lastPoll, runs,
                   supVars, intrVars, outVars>>

\* the worker returns what cmd.Run returned, wrapped with the name if non-nil
Return(u) ==
    /\ wpc[u] = "ret"
    /\ egGo(u, werr[u])
    /\ UNCHANGED <<sigVars, unitVars, histVars, confVars, callVars, lastPoll, runs, cmdVars, supVars, intrVars,
                   outVars>>

\* what Interrupt may return for a unit whose Process is p: nil while it is
\* nil; else what syscall.Kill returned, wrapped if it is an error: none for
\* a running process, and none or ESRCH once the process has exited
interruptReturns(p) ==
    IF p = "nil" \/ p = "running" THEN {NilErr}
    ELSE {NilErr, Err("Error sending interrupt", 0)}

\* faulty variant: Interrupt without its guard on command.Process, the signal
\* goes out whether or not there is a process
sigWithoutGuard(p, g) ==
    IF p = "running" \/ g = "live" THEN "live" ELSE "dead"

\* what Interrupt does for a unit whose Process is p: nothing while it is
\* nil, else syscall.Kill(-pid, SIGINT), which reaches a running process
sigAfterInterrupt(p, g) ==
    IF p = "nil" THEN g
    ELSE IF p = "running" \/ g = "live" THEN "live"
    ELSE "dead"

\* ShellCmd.Interrupt: nothing while Process is nil, else SIGINT to the
\* process group, whether or not the process has exited
Interrupt(u) ==
    /\ intr' = [intr EXCEPT ![u] = @ + 1]
    /\ sig' = [sig EXCEPT ![u] = sigAfterInterrupt(proc[u], @)]

\* ------------------------------------------------- ShellCmd.Write, in bytes
\* the bytes of the chunks, and "\033[0m", which ends a colour
ChunkBytes == {"a", NL}
Reset == <<"\\033[0m">>

\* the chunks a process hands to Write: the copying goroutine of exec.Cmd
\* calls Write with the bytes it has read, at least one
Chunks == SeqsUpTo(ChunkBytes, MaxChunk) \ {<<>>}

\* readyPattern.Match(in) for a pattern that is a literal: in holds it
Match(pattern, in) == \E i \in 1 .. Len(in) + 1 : HasAt(in, pattern, i)

\* all the chunks of the Write calls of log, one after the other
RECURSIVE Concat(_)
Concat(log) == IF log = <<>> THEN <<>> ELSE log[1].in \o Concat(Tail(log))

\* faulty variant: the pattern is matched against all the output so far
matchInputAll(log, in) == Concat(log) \o in

\* the bytes Write matches the pattern against: those of the chunk, whatever
\* the earlier calls (log) were given
matchInput(log, in) == in

\* faulty variant: the output is prefixed even when the name is empty
stdoutCallsPrefixed(s, in) ==
    IF s.silenceOutput THEN <<>>
    ELSE <<prefixEveryline(in, s.ansiColor \o s.name \o Reset)>>

\* faulty variant: every prefixed line is written by a call of its own
stdoutCallsPerLine(s, in) ==
    IF s.silenceOutput THEN <<>>
    ELSE IF s.name = <<>> THEN <<in>>
    ELSE LET lines == dropLastEmpty(Split(in))
         IN [i \in DOMAIN lines |->
                s.ansiColor \o s.name \o Reset \o Bar \o lines[i] \o <<NL>>]

\* what Write hands to os.Stdout.Write, call by call: nothing if
\* silenceOutput, the chunk if the name is empty, else the chunk prefixed
\* with ansiColor + name + "\033[0m", in one call
stdoutCalls(s, in) ==
    IF s.silenceOutput THEN <<>>
    ELSE IF s.name = <<>> THEN <<in>>
    ELSE <<prefixEveryline(in, s.ansiColor \o s.name \o Reset)>>

\* faulty variant: Write returns the number of bytes it handed to os.Stdout
writeReturnWritten(in, outs) == IF outs = <<>> THEN 0 ELSE Len(outs[1])

\* return len(in), err (and return len(in), nil if silenceOutput)
writeReturn(in, outs) == Len(in)

\* the bytes of one os.Stdout.Write call, as they lie in stdout
Tagged(bytes, u, call) == [i \in DOMAIN bytes |-> [by |-> u, call |-> call, b |-> bytes[i]]]

\* the size of the Write calls of log
RECURSIVE LogLoad(_)
LogLoad(log) == IF log = <<>> THEN 0 ELSE 1 + Len(log[1].in) + LogLoad(Tail(log))

\* the size of the options of s
OptionLoad(s) ==
    (IF s.name # <<>> THEN 1 ELSE 0) + (IF s.ansiColor # <<>> THEN 1 ELSE 0)
    + (IF s.silenceOutput THEN 1 ELSE 0) + (IF s.readyPattern # <<>> THEN 1 ELSE 0)

RECURSIVE WriteLoadUpTo(_)
WriteLoadUpTo(k) ==
    IF k = 0 THEN 0
    ELSE OptionLoad(shc[k]) + LogLoad(wlog[k]) + WriteLoadUpTo(k - 1)

\* the size of the run of the ShellCmds that have a process
WriteLoad ==
    LET n == Cardinality({u \in Units : proc[u] # "nil"})
    IN n * n + WriteLoadUpTo(NumUnits)

\* ShellCmd.Write(in), called with a chunk by the goroutine that copies the
\* output of the running process: the match, then the calls of
\* os.Stdout.Write, each of which writes its bytes in one piece or fails
\* (and then writes none); a call of Write that has calls left to make
\* (wpend) goes on with the next
WriteBytes(u, in) ==
    /\ wpc[u] = "wait"
    /\ proc[u] = "running"
    /\ IF wpend[u] = <<>>
       THEN /\ in \in Chunks
            /\ WriteLoad + 1 + Len(in) <= MaxWriteLoad
            /\ ready' = [ready EXCEPT ![u] =
                            readyAfterWrite(@, /\ shc[u].readyPattern # <<>>
                                               /\ Match(shc[u].readyPattern[1],
                                                        matchInput(wlog[u], in)))]
            /\ LET outs == stdoutCalls(shc[u], in)
               IN \E failed \in (IF outs = <<>> THEN {FALSE} ELSE BOOLEAN) :
                     /\ stdout' = IF outs = <<>> \/ failed THEN stdout
                                  ELSE stdout \o Tagged(outs[1], u, Len(wlog[u]) + 1)
                     /\ wpend' = [wpend EXCEPT ![u] =
                                     IF outs = <<>> \/ failed THEN <<>> ELSE Tail(outs)]
                     /\ wlog' = [wlog EXCEPT ![u] =
                                    Append(@, [in |-> in, n |-> writeReturn(in, outs),
                                               err |-> failed])]
       ELSE /\ in = <<>>
            /\ stdout' = stdout \o Tagged(Head(wpend[u]), u, Len(wlog[u]))
            /\ wpend' = [wpend EXCEPT ![u] = Tail(@)]
            /\ UNCHANGED <<ready, wlog>>
    /\ UNCHANGED <<confVars, callVars, ctxVars, egVars, workVars, proc, supVars, intrVars,
                   outVars, histVars, sigVars, callArgs, callRet, shc>>

\* -------------------------------------------------- the supervisory goroutine
\* faulty variant: SendInterrupts without its guard
sendsAlways(started) == TRUE

\* faulty variant: the guard of SendInterrupts without its negation
sendsWhenNotStarted(started) == ~started

\* SendInterrupts: if !g.hasStarted { return }
sendsWhenStarted(started) == started

\* go func() { <-ctx.Done(); g.SendInterrupts() }(): SendInterrupts returns
\* at once unless hasStarted (and has nothing to do with no commands)
SupWake ==
    /\ sup = "wait"
    /\ ctxDone
    /\ sup' = IF sendsWhenStarted(hasStarted) /\ Len(commands) > 0 THEN "send" ELSE "done"
    /\ supIdx' = 1
    /\ UNCHANGED <<sigVars, unitVars, histVars, confVars, callVars, ctxVars, egVars, workVars, cmdVars, intrVars,
                   outVars>>

\* one iteration of the loop of SendInterrupts: cmd.Interrupt()
SendInterrupts ==
    /\ sup = "send"
    /\ supIdx <= Len(commands)
    /\ Interrupt(commands[supIdx])
    /\ supIdx' = supIdx + 1
    /\ sup' = IF supIdx = Len(commands) THEN "done" ELSE "send"
    /\ UNCHANGED <<sigVars, unitVars, histVars, confVars, callVars, ctxVars, egVars, workVars, cmdVars, outVars>>

\* ------------------------------------------------------------- Group.Run
\* what becomes of an interrupt signal: while the registration of
\* signal.NotifyContext is there, the first one cancels the context and the
\* next ones find the channel unread; without registration the Go runtime
\* ends the program
signalOutcome(n) ==
    IF n = "on" THEN "relayed" ELSE IF n = "caught" THEN "swallowed" ELSE "default"

\* the program was ended by an interrupt signal
Killed == \E i \in DOMAIN osSigs : osSigs[i] = "default"

\* an interrupt signal reaches the program that called Group.Run: the first
\* one cancels the context Run passes to RunContext, before RunContext
\* derived the errgroup's context from it or after
OsInterrupt ==
    /\ notify # "none"
    /\ Len(osSigs) < MaxSignals
    /\ osSigs' = Append(osSigs, signalOutcome(notify))
    /\ notify' = IF notify = "on" THEN "caught" ELSE notify
    /\ IF notify = "on" /\ rc = "idle"
       THEN /\ preCancelled' = TRUE
            /\ UNCHANGED <<ctxDone, cancelledBy>>
       ELSE IF notify = "on" /\ rc = "wait" /\ ~ctxDone
       THEN /\ ctxDone' = TRUE
            /\ cancelledBy' = "caller"
            /\ UNCHANGED preCancelled
       ELSE UNCHANGED <<preCancelled, ctxDone, cancelledBy>>
    /\ UNCHANGED <<unitVars, histVars, confVars, hasStarted, rc, result, namesToCmds, canceller, egVars,
                   workVars, cmdVars, supVars, intrVars, outVars>>

\* faulty variant: the goroutine of Run does not call stop()
afterStopStillOn == "caught"

\* the registration after stop()
afterStop == "off"

\* go func() { <-ctx.Done(); stop() }() in Run
StopNotify ==
    /\ notify = "caught"
    /\ notify' = afterStop
    /\ UNCHANGED <<osSigs, unitVars, histVars, confVars, callVars, ctxVars, egVars, workVars, cmdVars,
                   supVars, intrVars, outVars>>

\* ---------------------------------------------------- the Group's other methods
\* faulty variant: AddCommands does not look at hasStarted
addAlways(started) == TRUE

\* AddCommands: if g.hasStarted { return error }
addAllowed(started) == ~started

\* the commands a call of AddCommands may pass: none, or the next of the
\* ShellCmds that are not in the Group yet
AddInputs ==
    {[i \in 1 .. n |-> Len(commands) + i] : n \in 0 .. NumUnits - Len(commands)}

\* Group.AddCommands(commands...), under the Group's lock
AddCommands(args) ==
    /\ IF addAllowed(hasStarted)
       THEN /\ commands' = commands \o args
            /\ addRes' = "nil"
       ELSE /\ UNCHANGED commands
            /\ addRes' = "already started"
    /\ UNCHANGED <<sigVars, unitVars, cfg, callVars, ctxVars, egVars, workVars, cmdVars, supVars, intrVars,
                   outVars, status, calls>>

\* Group.SendInterrupts() called by the Group's user
SendInterruptsCall ==
    /\ calls < MaxCalls
    /\ calls' = calls + 1
    /\ IF sendsWhenStarted(hasStarted)
       THEN /\ intr' = [u \in Units |-> IF u \in Range(commands) THEN intr[u] + 1 ELSE intr[u]]
            /\ sig' = [u \in Units |-> IF u \in Range(commands)
                                        THEN sigAfterInterrupt(proc[u], sig[u])
                                        ELSE sig[u]]
       ELSE UNCHANGED intrVars
    /\ UNCHANGED <<sigVars, unitVars, confVars, callVars, ctxVars, egVars, workVars, cmdVars, supVars, outVars,
                   status, addRes>>

\* ----------------------------------------------------------- specifications
Next ==
    \/ RunContext
    \/ CancelByCaller
    \/ \E u \in Units : PollDone(u)
    \/ \E u \in Units : PollTick(u)
    \/ \E u \in Units : Run(u)
    \/ \E u \in Units : Write(u)
    \/ \E u \in Units : Wait(u)
    \/ \E u \in Units : Return(u)
    \/ SupWake
    \/ SendInterrupts
    \/ RunContextReturn

Spec == Init /\ [][Next]_vars

\* the Go scheduler runs every runnable goroutine: a worker that can take a
\* step takes one, the supervisory goroutine and RunContext too. A process
\* is not bound to exit, and the caller is not bound to call anything.
Fairness ==
    /\ \A u \in Units : WF_vars(PollDone(u) \/ Run(u) \/ Return(u))
    /\ \A u \in Units : WF_vars(PollTick(u) /\ wpc'[u] # "poll")
    /\ WF_vars(SupWake)
    /\ WF_vars(SendInterrupts)
    /\ WF_vars(RunContextReturn)

FairSpec == Spec /\ Fairness

\* NewGroup(): the ShellCmds, which are made with CmdName only, are added by
\* AddCommands
GroupInit ==
    /\ commands = <<>>
    /\ cfg \in {c \in OutConfigs(NumUnits) :
                  \A u \in Units : /\ c[u].dependsOn = <<>>
                                   /\ ~c[u].silenceOutput
                                   /\ c[u].readyPattern = 0}
    /\ NotStarted
    /\ Unused
    /\ NoBytes
    /\ NoSignals

GroupNext ==
    \/ Next
    \/ \E args \in AddInputs : AddCommands(args)
    \/ SendInterruptsCall

\* a Group whose user calls AddCommands and SendInterrupts besides RunContext
GroupSpec == GroupInit /\ [][GroupNext]_vars

AddNext ==
    \/ RunContextLock
    \/ RunContextIndex
    \/ RunContextGo
    \/ \E args \in AddInputs : AddCommands(args)
    \/ CancelByCaller
    \/ \E u \in Units : PollDone(u)
    \/ \E u \in Units : PollTick(u)
    \/ \E u \in Units : Run(u)
    \/ \E u \in Units : Write(u)
    \/ \E u \in Units : Wait(u)
    \/ \E u \in Units : Return(u)
    \/ SupWake
    \/ SendInterrupts
    \/ RunContextReturn

\* calls of AddCommands at any point of a RunContext call
AddSpec == GroupInit /\ [][AddNext]_vars

\* NewGroup(commands...) with MaxUnits commands of which two were given the
\* same name with CmdName: unit p[1] bears the name of unit p[2], which
\* comes before it, and no unit bears the name p[1]
DupInit ==
    /\ commands = [i \in 1 .. MaxUnits |-> i]
    /\ cfg \in {[u \in Units |-> IF u = p[1] THEN [g[u] EXCEPT !.name = p[2]] ELSE g[u]] :
                  g \in Groups(MaxUnits, MaxUnits, MaxLoad - MaxUnits),
                  p \in {q \in Units \X Units : q[2] < q[1]}}
    /\ NotStarted
    /\ Unused
    /\ NoBytes
    /\ NoSignals

\* RunContext on Groups in which a name is borne by two units
DupSpec == DupInit /\ [][Next]_vars

\* the units of the first k of configuration c, other than u, that u names in
\* its dependsOn, and the units that are reached from those of S along
\* dependsOn in at most n steps
dependsOnUnits(c, k, u) ==
    {v \in (1 .. k) \ {u} : \E i \in DOMAIN c[u].dependsOn : c[u].dependsOn[i] = c[v].name}

RECURSIVE reached(_, _, _, _)
reached(c, k, S, n) ==
    IF n = 0 THEN S
    ELSE reached(c, k, S \cup UNION {dependsOnUnits(c, k, v) : v \in S}, n - 1)

\* u is one of two or more distinct units that depend on each other in a cycle
onCycle(c, k, u) == u \in reached(c, k, dependsOnUnits(c, k, u), k)

\* NewGroup(commands...) with commands that depend on each other in a cycle
CycleInit ==
    /\ \E k \in 1 .. MaxUnits :
         /\ k <= MaxCycleLoad
         /\ commands = [i \in 1 .. k |-> i]
         /\ cfg \in {c \in {[u \in Units |-> IF u <= k THEN g[u] ELSE NoCmd] :
                                g \in Groups(k, k, MaxCycleLoad - k)} :
                       \E u \in 1 .. k : onCycle(c, k, u)}
    /\ NotStarted
    /\ Unused
    /\ NoBytes
    /\ NoSignals

\* RunContext on Groups with a dependency cycle
CycleSpec == CycleInit /\ [][Next]_vars

\* NewGroup(commands...) with k commands whose dependsOn names are all borne
\* by another unit of the Group, and whose dependencies have no cycle
GoodInit ==
    /\ \E k \in 0 .. NumUnits :
         /\ k <= MaxLoad
         /\ commands = [i \in 1 .. k |-> i]
         /\ cfg \in {c \in Configs(k) :
                       \A u \in 1 .. k :
                           /\ ~onCycle(c, k, u)
                           /\ \A i \in DOMAIN c[u].dependsOn :
                                 /\ c[u].dependsOn[i] # c[u].name
                                 /\ \E v \in 1 .. k : c[v].name = c[u].dependsOn[i]}
    /\ NotStarted
    /\ Unused
    /\ NoBytes
    /\ NoSignals

\* the caller never cancels the token, and every process ends with status zero
GoodNext ==
    \/ RunContext
    \/ \E u \in Units : PollDone(u)
    \/ \E u \in Units : PollTick(u)
    \/ \E u \in Units : Run(u)
    \/ \E u \in Units : Write(u)
    \/ \E u \in Units : Wait(u) /\ status'[u] = "exit status 0"
    \/ \E u \in Units : Return(u)
    \/ SupWake
    \/ SendInterrupts
    \/ RunContextReturn

\* the goroutines are scheduled, the caller calls RunContext, and every
\* started process ends
GoodFairness ==
    /\ Fairness
    /\ WF_vars(RunContext)
    /\ \A u \in Units : WF_vars(Wait(u) /\ status'[u] = "exit status 0")

\* RunContext on well-formed Groups whose processes all end with status zero
GoodSpec == GoodInit /\ [][GoodNext]_vars /\ GoodFairness

\* RunContext on Groups whose commands write output
OutSpec == OutInit /\ [][Next]_vars

\* Group.Run has made its context with signal.NotifyContext and is about to
\* call RunContext with it, on a Group of ShellCmds that are made with
\* CmdName only and write nothing
RunInit ==
    /\ \E k \in 0 .. NumUnits : commands = [i \in 1 .. k |-> i]
    /\ cfg \in {c \in OutConfigs(NumUnits) :
                  \A u \in Units : /\ c[u].dependsOn = <<>>
                                   /\ c[u].chunks = 0
                                   /\ ~c[u].silenceOutput
                                   /\ c[u].readyPattern = 0}
    /\ NotStarted
    /\ Unused
    /\ NoBytes
    /\ notify = "on"
    /\ osSigs = <<>>

\* the context of Run is cancelled by the signal only; nothing runs in a
\* program that a signal has ended
RunNext ==
    \/ ~Killed /\ RunContext
    \/ ~Killed /\ \E u \in Units : PollDone(u)
    \/ ~Killed /\ \E u \in Units : PollTick(u)
    \/ ~Killed /\ \E u \in Units : Run(u)
    \/ ~Killed /\ \E u \in Units : Wait(u)
    \/ ~Killed /\ \E u \in Units : Return(u)
    \/ ~Killed /\ SupWake
    \/ ~Killed /\ SendInterrupts
    \/ ~Killed /\ RunContextReturn
    \/ ~Killed /\ OsInterrupt
    \/ ~Killed /\ StopNotify

\* Run calls RunContext, and the goroutine it started runs
RunFairness ==
    /\ Fairness
    /\ WF_vars(RunContext)
    /\ WF_vars(StopNotify)

\* Group.Run in a program that receives interrupt signals
RunSpec == RunInit /\ [][RunNext]_vars /\ RunFairness

\* a call prefixEveryline(in, prefix), as Write makes it or a test does
PrefixInputs ==
    {[fn |-> "prefixEveryline", in |-> t, prefix |-> l] :
        t \in SeqsUpTo(TextBytes, MaxText), l \in SeqsUpTo(PrefixBytes, MaxPrefix)}

PrefixInit ==
    /\ commands = <<>>
    /\ cfg = [u \in Units |-> NoCmd]
    /\ NotStarted
    /\ NoBytes
    /\ NoSignals
    /\ callArgs \in PrefixInputs
    /\ callRet = NoCall

\* the call returns
PrefixCall ==
    /\ callArgs.fn = "prefixEveryline"
    /\ callRet = NoCall
    /\ callRet' = [fn |-> "prefixEveryline",
                   out |-> prefixEveryline(callArgs.in, callArgs.prefix)]
    /\ UNCHANGED <<confVars, callVars, ctxVars, egVars, workVars, cmdVars, supVars, intrVars,
                   outVars, histVars, sigVars, callArgs, shc, stdout, wlog, wpend>>

PrefixNext == PrefixCall

\* prefixEveryline on every text and prefix
PrefixSpec == PrefixInit /\ [][PrefixNext]_vars

\* a call NewShellCmd(shell, command, options...)
NewInputs ==
    {[fn |-> "NewShellCmd", shell |-> sh, options |-> os] :
        sh \in Shells, os \in SeqsUpTo(Options, MaxOptions)}

NewInit ==
    /\ commands = <<>>
    /\ cfg = [u \in Units |-> NoCmd]
    /\ NotStarted
    /\ NoBytes
    /\ NoSignals
    /\ callArgs \in NewInputs
    /\ callRet = NoCall

\* the call returns
NewCall ==
    /\ callArgs.fn = "NewShellCmd"
    /\ callRet = NoCall
    /\ callRet' = [fn |-> "NewShellCmd",
                   ret |-> NewShellCmd(callArgs.shell, callArgs.options)]
    /\ UNCHANGED <<confVars, callVars, ctxVars, egVars, workVars, cmdVars, supVars, intrVars,
                   outVars, histVars, sigVars, callArgs, shc, stdout, wlog, wpend>>

NewNext == NewCall

\* NewShellCmd on every shell and list of options
NewSpec == NewInit /\ [][NewNext]_vars

\* the ShellCmds that write bytes: CmdName, SetColor (with CmdName: Write
\* reads no colour without a name), SilenceOutput and ReadyPattern (with a
\* literal) given or not
ByteCmds ==
    {s \in {[name |-> n, ansiColor |-> c, silenceOutput |-> q, readyPattern |-> r] :
                n \in {<<>>, <<"p">>}, c \in {<<>>, <<"\\033[31m">>}, q \in BOOLEAN,
                r \in {<<>>, << <<"a">> >>, << <<"a", "a">> >>}} :
        s.name = <<>> => s.ansiColor = <<>>}

\* k ShellCmds made by NewShellCmd, outside any Group, each with Run called
\* in a goroutine of its own and its process running
WriteInit ==
    /\ commands = <<>>
    /\ cfg = [u \in Units |-> NoCmd]
    /\ hasStarted = FALSE /\ rc = "idle" /\ result = NilErr /\ preCancelled = FALSE
    /\ ctxDone = FALSE /\ cancelledBy = "none" /\ canceller = 0
    /\ namesToCmds = <<>> /\ egErr = NilErr /\ firstFail = 0
    /\ werr = [u \in Units |-> NilErr]
    /\ lastPoll = [u \in Units |-> "none"]
    /\ ready = [u \in Units |-> FALSE]
    /\ intr = [u \in Units |-> 0]
    /\ sig = [u \in Units |-> "none"]
    /\ sup = "none" /\ supIdx = 1
    /\ nout = [u \in Units |-> 0]
    /\ sink = <<>>
    /\ status = [u \in Units |-> "none"]
    /\ addRes = "none" /\ calls = 0
    /\ Unused
    /\ NoSignals
    /\ stdout = <<>>
    /\ wlog = [u \in Units |-> <<>>]
    /\ wpend = [u \in Units |-> <<>>]
    /\ \E k \in 1 .. NumUnits :
         /\ wpc = [u \in Units |-> IF u <= k THEN "wait" ELSE "none"]
         /\ proc = [u \in Units |-> IF u <= k THEN "running" ELSE "nil"]
         /\ runs = [u \in Units |-> IF u <= k THEN 1 ELSE 0]
         /\ shc \in [Units -> ByteCmds]
         /\ \A u \in Units : u > k => shc[u] = BareShellCmd
    /\ WriteLoad <= MaxWriteLoad

WriteNext ==
    \/ \E u \in Units, in \in Chunks \cup {<<>>} : WriteBytes(u, in)
    \/ \E u \in Units : Wait(u)

\* ShellCmds whose processes write chunks of bytes and end
WriteSpec == WriteInit /\ [][WriteNext]_vars

\* ------------------------------------------------------------------ claims
InGroup(u) == u \in Range(commands)
Deps(u) == cfg[u].dependsOn

\* C1: a unit with a non-empty dependsOn has its Run called only after a
\* poll of its worker found every name of dependsOn in the index and the
\* unit it names ready (ready is never reset, so they are ready still)
C1_StartedAfterDependenciesReady ==
    \A u \in Units :
        (runs[u] > 0 /\ Deps(u) # <<>>) =>
            \A i \in DOMAIN Deps(u) :
                /\ Deps(u)[i] \in DOMAIN namesToCmds
                /\ ready[namesToCmds[Deps(u)[i]]]
                /\ lastPoll[u] = "ok"

C1_Witness ==
    \E u \in Units : Deps(u) # <<>> /\ proc[u] = "running"

\* C2: with a context cancelled before the call (and a Group that has
\* units), RunContext returns the cancellation error, no unit's Run is
\* called, no process is started and nothing is written
C2_PreCancelledStartsNothing ==
    (preCancelled /\ commands # <<>>) =>
        /\ \A u \in Units : runs[u] = 0 /\ proc[u] = "nil"
        /\ sink = <<>>
        /\ rc = "returned" => result = Canceled

\* C3: RunContext returns nil exactly when every worker returned nil;
\* otherwise it returns the result of the first worker that returned a
\* non-nil one (the worker that cancelled the context, when a worker did),
\* whatever the later ones returned
C3_FirstErrorReturned ==
    rc = "returned" =>
        /\ result = NilErr <=> \A u \in Units : werr[u] = NilErr
        /\ result # NilErr =>
             /\ firstFail \in Range(commands)
             /\ result = werr[firstFail]
             /\ cancelledBy = "worker" => canceller = firstFail

C3_Witness ==
    /\ rc = "returned"
    /\ result # NilErr
    /\ \E u \in Units : werr[u] # NilErr /\ werr[u] # result

\* C4: when RunContext has returned, every worker is done: none is in its
\* select, in cmd.Run or about to return
C4_ReturnsAfterAllWorkers ==
    rc = "returned" => \A u \in Units : InGroup(u) => wpc[u] = "done"

C4_Witness ==
    /\ rc = "returned"
    /\ Len(commands) > 1
    /\ \A u \in Units : InGroup(u) => proc[u] = "exited"

\* C5: a worker that returns a non-nil result leaves the context cancelled,
\* and once the context is cancelled the supervisory goroutine gets to call
\* Interrupt() on every unit of the Group
C5_FailureCancelsAndInterruptsAll ==
    /\ [](\A u \in Units : (wpc[u] = "done" /\ werr[u] # NilErr) => ctxDone)
    /\ ctxDone ~> (\A u \in Units : InGroup(u) => intr[u] > 0)

C5_Witness ==
    /\ cancelledBy = "worker"
    /\ Len(commands) > 1
    /\ \A u \in Units : InGroup(u) => intr[u] > 0

\* C6: once the fan-out that follows the cancellation is over, every
\* process that runs has been sent the interrupt, also one started after
\* the cancellation
C6_RunningUnitsInterrupted ==
    sup = "done" => \A u \in Units : proc[u] = "running" => sig[u] = "live"

\* C7: with the context cancelled, a worker in its select does not go on to
\* call cmd.Run, and when it ends it reports the cancellation error
C7_NoStartOnceCancelled ==
    [][\A u \in Units :
          (ctxDone /\ wpc[u] = "poll") =>
              /\ wpc'[u] # "run"
              /\ wpc'[u] = "done" => werr'[u] = Canceled]_vars

GroupNames == {cfg[v].name : v \in Range(commands)}
HasAbsentDep(u) == \E i \in DOMAIN Deps(u) : Deps(u)[i] \notin GroupNames
HasSelfDep(u) == \E i \in DOMAIN Deps(u) : Deps(u)[i] = cfg[u].name

\* the first entry of dependsOn that is absent from the Group or the unit's own name
Faulty(u, i) == Deps(u)[i] \notin GroupNames \/ Deps(u)[i] = cfg[u].name
FirstFaulty(u) == CHOOSE i \in DOMAIN Deps(u) :
                      Faulty(u, i) /\ \A j \in 1 .. i - 1 : ~Faulty(u, j)
FaultyError(u) ==
    LET d == Deps(u)[FirstFaulty(u)]
    IN Wrap(cfg[u].name, Err(IF d \notin GroupNames THEN "missing" ELSE "self", d))

\* what a poll of a worker whose dependsOn has a faulty entry does: it ends
\* the worker with the error of the first faulty entry if the units named
\* before it are ready, and else leaves the worker in its select
FaultyPoll(u) ==
    IF \A j \in 1 .. FirstFaulty(u) - 1 : ready[namesToCmds[Deps(u)[j]]]
    THEN wpc'[u] = "done" /\ werr'[u] = FaultyError(u) /\ runs'[u] = 0
    ELSE wpc'[u] = "poll" /\ lastPoll'[u] = "wait" /\ werr'[u] = werr[u]

\* C8 as claimed: a unit of the Group with an absent name in dependsOn is
\* never started, and the first poll of its worker ends it with the
\* missing-dependency error wrapped with its name
C8_AbsentFailsOnFirstPoll ==
    \A u \in Units :
        (InGroup(u) /\ HasAbsentDep(u)) =>
            /\ runs[u] = 0
            /\ lastPoll[u] # "none" =>
                 /\ wpc[u] = "done"
                 /\ werr[u].kind = "missing" /\ werr[u].wrapped /\ werr[u].cmd = cfg[u].name

\* C8 as amended: a unit of the Group with an absent name in dependsOn is
\* never started; a poll of its worker ends it once every unit named
\* before the first faulty entry is ready, with the missing-dependency error
\* for that entry wrapped with its name (the self-dependency error if the
\* entry is its own name); a poll before that reports no error
C8_AbsentFailsWhenReached ==
    /\ [](\A u \in Units : (InGroup(u) /\ HasAbsentDep(u)) => runs[u] = 0 /\ proc[u] = "nil")
    /\ [][\A u \in Units :
             (InGroup(u) /\ HasAbsentDep(u) /\ PollTick(u)) => FaultyPoll(u)]_vars

C8_Witness ==
    \E u \in Units :
        /\ InGroup(u) /\ HasAbsentDep(u)
        /\ FirstFaulty(u) > 1
        /\ wpc[u] = "done"
        /\ werr[u].kind = "missing"

\* C9 as claimed: a unit with its own name in dependsOn is never started,
\* and the first poll of its worker ends it with the self-dependency error
C9_SelfFailsOnFirstPoll ==
    \A u \in Units :
        (InGroup(u) /\ HasSelfDep(u)) =>
            /\ runs[u] = 0
            /\ lastPoll[u] # "none" => wpc[u] = "done" /\ werr[u].kind = "self"

\* C9 as amended: a unit with its own name in dependsOn is never started; a
\* poll of its worker ends it once every unit named before the first faulty
\* entry is ready, with the self-dependency error if that entry is its own
\* name (the missing-dependency error if it is an absent name); a poll
\* before that reports no error
C9_SelfFailsWhenReached ==
    /\ [](\A u \in Units : (InGroup(u) /\ HasSelfDep(u)) => runs[u] = 0 /\ proc[u] = "nil")
    /\ [][\A u \in Units :
             (InGroup(u) /\ HasSelfDep(u) /\ PollTick(u)) => FaultyPoll(u)]_vars

C9_Witness ==
    \E u \in Units :
        /\ InGroup(u) /\ HasSelfDep(u)
        /\ FirstFaulty(u) > 1
        /\ wpc[u] = "done"
        /\ werr[u].kind = "self"

RunReturned(u) == runs[u] > 0 /\ wpc[u] \in {"ret", "done"}

\* C10 as claimed: whenever Run has returned, ready is true
C10_ReadyWheneverRunReturns ==
    \A u \in Units : RunReturned(u) => ready[u]

\* C10 as amended: whenever Run has returned after the process was spawned
\* (exit status zero or not, interrupted or not), ready is true; when the
\* process could not be spawned, Run returns the error and ready is false
C10_ReadyWhenProcessEnded ==
    \A u \in Units :
        RunReturned(u) =>
            IF proc[u] = "exited" THEN ready[u]
            ELSE /\ ~ready[u]
                 /\ proc[u] = "nil"
                 /\ werr[u] = Wrap(cfg[u].name, Err("failed to start command", 0))

C10_Witness ==
    \E u \in Units :
        /\ wpc[u] = "ret" /\ proc[u] = "exited" /\ ready[u]
        /\ sig[u] = "live" /\ werr[u] # NilErr

\* the chunk the ready pattern of u matches has been handed to Write
Matched(u) == cfg[u].readyPattern # 0 /\ nout[u] >= cfg[u].readyPattern

\* B is a unit of the Group whose dependsOn names A, another unit of it
DependsOnUnit(B, A) ==
    /\ InGroup(A) /\ InGroup(B) /\ A # B
    /\ \E i \in DOMAIN Deps(B) : Deps(B)[i] = cfg[A].name

\* C11: ready starts false; Write and Run, its only writers, never turn it
\* from true to false, so that IsReady() stays true once it was true
C11_ReadyMonotonic ==
    /\ [](hasStarted \/ \A u \in Units : ~ready[u])
    /\ [][\A u \in Units : ready[u] => ready'[u]]_vars

C11_Witness ==
    \E u \in Units : Matched(u) /\ ready[u] /\ proc[u] = "exited" /\ nout[u] > cfg[u].readyPattern

\* C12: a unit with a ready pattern is ready from the chunk the pattern
\* matches on, its process still running or not; and while its process has
\* not exited, a dependent of it has been started only if that chunk has
\* been received
C12_ReadyPatternUnblocks ==
    /\ \A A \in Units : Matched(A) => ready[A]
    /\ \A A, B \in Units :
          (DependsOnUnit(B, A) /\ cfg[A].readyPattern # 0 /\ runs[B] > 0 /\ proc[A] # "exited")
              => Matched(A) /\ proc[A] = "running"

\* B's output lies between the chunk that made A ready and A's later output,
\* and A's process still runs
C12_Witness ==
    \E A, B \in Units :
        /\ DependsOnUnit(B, A) /\ cfg[A].readyPattern = 1
        /\ ~cfg[A].silenceOutput /\ ~cfg[B].silenceOutput
        /\ Len(sink) = 3 /\ sink[1] = A /\ sink[2] = B /\ sink[3] = A
        /\ proc[A] = "running"

\* C13: no chunk of a unit with silenceOutput is in the shared output, and
\* such a unit is ready once its pattern has matched or its Run has
\* returned from command.Wait()
C13_SilentWritesNothing ==
    \A u \in Units :
        cfg[u].silenceOutput =>
            /\ \A i \in DOMAIN sink : sink[i] # u
            /\ Matched(u) => ready[u]
            /\ proc[u] = "exited" => ready[u]

\* a silent unit has written, and its dependent has been started and has written
C13_Witness ==
    \E A, B \in Units :
        /\ DependsOnUnit(B, A) /\ cfg[A].silenceOutput /\ ~cfg[B].silenceOutput
        /\ nout[A] > 0 /\ ready[A]
        /\ runs[B] > 0 /\ nout[B] > 0
        /\ \E i \in DOMAIN sink : sink[i] = B

Plain(u) == cfg[u].readyPattern = 0 /\ ~cfg[u].silenceOutput

\* C17: for units without ready pattern and without silenceOutput, if B
\* depends on A then every chunk of A in the shared output precedes every
\* chunk of B
C17_DependencyOrdersOutput ==
    \A A, B \in Units :
        (DependsOnUnit(B, A) /\ Plain(A) /\ Plain(B)) =>
            \A i, j \in DOMAIN sink : (sink[i] = A /\ sink[j] = B) => i < j

C17_Witness ==
    \E A, B \in Units :
        /\ DependsOnUnit(B, A) /\ Plain(A) /\ Plain(B)
        /\ \E i, j \in DOMAIN sink : sink[i] = A /\ sink[j] = B
        /\ rc = "returned" /\ result = NilErr

\* C14: Interrupt() issues the kill only for a process that has been started
\* and has not exited: no unit's only kills were issued after its process
\* had exited
C14_NoSignalAfterExit ==
    \A u \in Units : sig[u] # "dead"

\* C18: the worker of a command that exited with a non-zero status returns
\* "<name>: exit status <code>", and RunContext returns that error when this
\* worker was the first to return a non-nil result
C18_ExitErrorWrapped ==
    \A u \in Units :
        (wpc[u] = "done" /\ status[u] \notin {"none", "exit status 0"}) =>
            /\ werr[u] = [kind |-> status[u], wrapped |-> TRUE, cmd |-> cfg[u].name, dep |-> 0]
            /\ (rc = "returned" /\ firstFail = u) => result = werr[u]

C18_Witness ==
    /\ rc = "returned" /\ Len(commands) > 1
    /\ result.kind = "exit status 1"
    /\ \E u \in Units : status[u] = "exit status 1" /\ firstFail = u /\ result = werr[u]

\* C19 as claimed: when the caller cancelled the context before any worker
\* failed, RunContext (of a Group with commands) returns the cancellation error
C19_CallerCancelReturnsCanceled ==
    (rc = "returned" /\ cancelledBy = "caller" /\ commands # <<>>) => result = Canceled

\* C19 as amended: when the caller cancelled the context before any worker
\* failed, RunContext returns the first non-nil worker result: the
\* cancellation error only from a worker that never called cmd.Run, nil only
\* when every command was started and ended with status zero, and else the
\* error of a worker wrapped with its command's name
C19_CallerCancelReturnsFirstResult ==
    (rc = "returned" /\ cancelledBy = "caller") =>
        /\ result = Canceled => firstFail # 0 /\ runs[firstFail] = 0 /\ proc[firstFail] = "nil"
        /\ result = NilErr => \A u \in Units : InGroup(u) => status[u] = "exit status 0"
        /\ result \notin {Canceled, NilErr} =>
              /\ firstFail # 0
              /\ result = werr[firstFail]
              /\ result.wrapped /\ result.cmd = cfg[firstFail].name

\* the caller cancelled, the fan-out interrupted a running command, and its
\* exit error is what RunContext returned
C19_Witness ==
    /\ rc = "returned" /\ cancelledBy = "caller"
    /\ result.kind = "exit status 1"
    /\ sig[firstFail] = "live"

\* C20 as claimed: a Run call that the cancellation reached while its
\* process was running returns the cancellation error
C20_RunReturnsCancellation ==
    \A u \in Units : (RunReturned(u) /\ sig[u] = "live") => werr[u] = Canceled

\* C20 as amended: a Run call that has spawned its process returns only once
\* the process has exited, the context cancelled or not; it returns what
\* command.Wait() returned, never the cancellation error, and the interrupt
\* on cancellation is sent by SendInterrupts, not by Run
C20_RunBlocksUntilExit ==
    /\ [](\A u \in Units :
             (RunReturned(u) /\ proc[u] # "nil") =>
                 proc[u] = "exited" /\ status[u] # "none" /\ werr[u].kind # Canceled.kind)
    /\ [][\A u \in Units :
             (wpc[u] = "wait" /\ wpc'[u] # "wait") =>
                 /\ proc'[u] = "exited"
                 /\ intr'[u] = intr[u]
                 /\ wpc'[u] = "ret"]_vars

\* the context was cancelled and the process interrupted while Run blocked,
\* and Run returned nil after the process had exited
C20_Witness ==
    \E u \in Units :
        /\ cancelledBy = "caller" /\ sig[u] = "live"
        /\ wpc[u] = "ret" /\ proc[u] = "exited" /\ werr[u] = NilErr

\* C15: AddCommands on a started Group returns the already-started error and
\* leaves the command list as it is; before that it appends its arguments in
\* order and returns nil
C15_AddCommandsUntilStarted ==
    /\ [](addRes = "already started" => hasStarted)
    /\ [][\A args \in AddInputs :
             ((addRes' # addRes \/ commands' # commands) /\ AddCommands(args)) =>
                 IF hasStarted
                 THEN addRes' = "already started" /\ commands' = commands
                 ELSE /\ addRes' = "nil"
                      /\ Len(commands') = Len(commands) + Len(args)
                      /\ \A i \in DOMAIN commands : commands'[i] = commands[i]
                      /\ \A i \in DOMAIN args : commands'[Len(commands) + i] = args[i]]_vars

\* calls appended commands in order, and a call after RunContext was refused
C15_Witness ==
    /\ hasStarted /\ addRes = "already started"
    /\ Len(commands) > 1 /\ commands[1] = 1 /\ commands[2] = 2
    /\ wpc[2] # "none"

\* C16: a call of SendInterrupts on a Group that has not been started changes
\* nothing and calls Interrupt() on no unit; on a started Group it calls
\* Interrupt() once on every unit of the Group
C16_SendInterruptsOnlyWhenStarted ==
    [][calls' # calls =>
          IF hasStarted
          THEN \A u \in Units : intr'[u] = intr[u] + (IF InGroup(u) THEN 1 ELSE 0)
          ELSE UNCHANGED <<confVars, callVars, ctxVars, egVars, workVars, cmdVars, supVars,
                           intrVars, outVars, status, addRes>>]_vars

\* the user's call interrupted a running process, the context not cancelled
C16_Witness ==
    /\ calls > 0 /\ hasStarted /\ ~ctxDone
    /\ Len(commands) > 1
    /\ \A u \in Units : InGroup(u) => intr[u] > 0
    /\ \E u \in Units : sig[u] = "live" /\ proc[u] = "running"

\* the text and the prefix of the call of prefixEveryline, and what it returned
PrefixReturned == callArgs.fn = "prefixEveryline" /\ callRet # NoCall

\* "label | " before every element of lines
RECURSIVE prefixEach(_, _)
prefixEach(lines, label) ==
    IF lines = <<>> THEN <<>>
    ELSE <<label \o Bar \o lines[1]>> \o prefixEach(Tail(lines), label)

\* the reference: split on "\n", drop the last element if it is empty, put
\* "label | " before every remaining element, join with "\n", append "\n"
PrefixReference(text, label) ==
    Join(prefixEach(dropLastEmpty(Split(text)), label), <<NL>>) \o <<NL>>

\* C21: prefixEveryline(text, label) equals the reference: the elements of
\* the text split on "\n", without the last if it is empty, each with
\* "label | " before it, joined with "\n", and one "\n" appended
C21_EqualsReference ==
    PrefixReturned => callRet.out = PrefixReference(callArgs.in, callArgs.prefix)

\* the number of lines of s that start with t
LineStarts(s, t) ==
    Cardinality({i \in 1 .. Len(s) : HasAt(s, t, i) /\ (i = 1 \/ s[i - 1] = NL)})

\* s ends in one "\n", and not in two
EndsInOneNewline(s) ==
    /\ Len(s) > 0 /\ s[Len(s)] = NL
    /\ Len(s) > 1 => s[Len(s) - 1] # NL

\* the number of non-empty pieces of text between its newlines
NonEmptySegments(text) ==
    LET pieces == Split(text)
    IN Cardinality({i \in DOMAIN pieces : pieces[i] # <<>>})

\* the number of newlines of text, not counting one that ends it
InnerNewlines(text) == Cardinality({i \in 1 .. Len(text) - 1 : text[i] = NL})

\* C22 as stated: for a non-empty label the output ends in exactly one "\n"
\* and holds "label | " as many times as the text has non-empty segments
C22_OneLabelPerNonEmptySegment ==
    (PrefixReturned /\ callArgs.prefix # <<>>) =>
        /\ EndsInOneNewline(callRet.out)
        /\ Occurrences(callRet.out, callArgs.prefix \o Bar) = NonEmptySegments(callArgs.in)

\* C22: for a non-empty label the output ends in exactly one "\n", every
\* line of it starts with "label | ", and it has one line more than the text
\* has newlines before its last byte: empty segments get the label too, and
\* the empty text gives one line
C22_OneLabelPerLine ==
    (PrefixReturned /\ callArgs.prefix # <<>>) =>
        /\ EndsInOneNewline(callRet.out)
        /\ LineStarts(callRet.out, callArgs.prefix \o Bar) = 1 + InnerNewlines(callArgs.in)
        /\ Occurrences(callRet.out, <<NL>>) = 1 + InnerNewlines(callArgs.in)

\* a text with two newlines in a row was prefixed
C22_Witness ==
    /\ PrefixReturned /\ callArgs.prefix # <<>>
    /\ callArgs.in = <<"a", NL, NL, "a">>
    /\ LineStarts(callRet.out, callArgs.prefix \o Bar) = 3

\* C29: for a text that does not end in "\n", prefixEveryline gives the text
\* followed by "\n" the output it gives the text, which has no line for the
\* final newline
C29_TrailingNewlineIgnored ==
    (PrefixReturned /\ (callArgs.in = <<>> \/ callArgs.in[Len(callArgs.in)] # NL)) =>
        /\ prefixEveryline(callArgs.in \o <<NL>>, callArgs.prefix) = callRet.out
        /\ Occurrences(callRet.out, <<NL>>) = 1 + Occurrences(callArgs.in, <<NL>>)

\* a text of two lines that does not end in "\n" was prefixed
C29_Witness ==
    /\ PrefixReturned
    /\ callArgs.in = <<"a", NL, "p">>
    /\ callRet.out = prefixEveryline(<<"a", NL, "p", NL>>, callArgs.prefix)

\* the call of NewShellCmd has returned
NewReturned == callArgs.fn = "NewShellCmd" /\ callRet # NoCall

\* the shell is none of zsh, bash, sh and not empty
BadShell(shell) == shell \notin {"", "zsh", "bash", "sh"}

\* the option is CmdDir with a directory that does not exist, or ReadyPattern
\* with a pattern that does not compile
BadOption(o) ==
    \/ o.opt = "CmdDir" /\ expandDir(o.arg) \notin Existing
    \/ o.opt = "ReadyPattern" /\ ~compiles(o.arg)

\* the failing options of the call, by their place in the list
BadOptions == {i \in DOMAIN callArgs.options : BadOption(callArgs.options[i])}

\* C25: NewShellCmd with a shell outside zsh, bash, sh and "", or with an
\* option that fails (CmdDir with a directory that does not exist,
\* ReadyPattern with a pattern that does not compile) returns an error and no
\* ShellCmd, and no process is spawned; the error is that of the shell, or
\* else that of the first failing option, after which no option is called
C25_BadConfigurationRejected ==
    NewReturned =>
        LET ret == callRet.ret
        IN /\ \A u \in Units : proc[u] = "nil"
           /\ ret.cmd # NilShellCmd => ret.cmd.command.process = "nil"
           /\ (BadShell(callArgs.shell) \/ BadOptions # {}) <=> ret.err.kind # "nil"
           /\ ret.err.kind # "nil" <=> ret.cmd = NilShellCmd
           /\ BadShell(callArgs.shell) =>
                 ret.err.kind = "shell not supported" /\ ret.applied = 0
           /\ (~BadShell(callArgs.shell) /\ BadOptions # {}) =>
                 \E i \in BadOptions :
                    /\ \A j \in BadOptions : i <= j
                    /\ ret.applied = i
                    /\ ret.err.arg = callArgs.options[i].arg
                    /\ ret.err.kind = IF callArgs.options[i].opt = "CmdDir"
                                      THEN "directory does not exist"
                                      ELSE "compiling regexp"

\* two failing options: the call returned the error of the first
C25_Witness ==
    /\ NewReturned
    /\ ~BadShell(callArgs.shell)
    /\ Len(callArgs.options) = 2
    /\ callArgs.options[1].opt = "ReadyPattern" /\ ~compiles(callArgs.options[1].arg)
    /\ callArgs.options[2].opt = "CmdDir" /\ BadOption(callArgs.options[2])
    /\ callRet.ret.cmd = NilShellCmd /\ callRet.ret.err.kind = "compiling regexp"

\* the unit runs on its own and writes bytes
Writer(u) == runs[u] > 0 /\ commands = <<>>

\* the bytes the c-th Write call of unit u put into stdout
BytesOf(u, c) ==
    LET mine(e) == e.by = u /\ e.call = c
        own == SelectSeq(stdout, mine)
    IN [i \in DOMAIN own |-> own[i].b]

\* the c-th Write call of unit u has made its calls of os.Stdout.Write
Written(u, c) == c \in DOMAIN wlog[u] /\ (c < Len(wlog[u]) \/ wpend[u] = <<>>)

\* C23: the bytes one Write call puts into os.Stdout lie there in one piece:
\* between two bytes of a call there is no byte of another call, of
\* whichever unit
C23_WriteIsContiguous ==
    \A i \in DOMAIN stdout : \A l \in DOMAIN stdout :
        (i < l /\ stdout[i].by = stdout[l].by /\ stdout[i].call = stdout[l].call) =>
            \A j \in i .. l : stdout[j].by = stdout[i].by /\ stdout[j].call = stdout[i].call

\* two running units wrote one after the other, the first of them two
\* prefixed lines
C23_Witness ==
    \E i \in DOMAIN stdout : \E j \in DOMAIN stdout :
        /\ i < j /\ stdout[j].by # stdout[i].by
        /\ proc[stdout[i].by] = "running" /\ proc[stdout[j].by] = "running"
        /\ shc[stdout[i].by].name # <<>>
        /\ Len(dropLastEmpty(Split(wlog[stdout[i].by][stdout[i].call].in))) > 1

C27_WriteReturnsChunkLength ==
    \A u \in Units : \A c \in DOMAIN wlog[u] : wlog[u][c].n = Len(wlog[u][c].in)

\* a prefixed chunk was written, longer than the chunk, and a write failed
C27_Witness ==
    /\ \E u \in Units : \E c \in DOMAIN wlog[u] :
          /\ shc[u].name # <<>> /\ ~shc[u].silenceOutput /\ ~wlog[u][c].err
          /\ Len(BytesOf(u, c)) > wlog[u][c].n
    /\ \E u \in Units : \E c \in DOMAIN wlog[u] :
          wlog[u][c].err /\ wlog[u][c].n = Len(wlog[u][c].in) /\ wlog[u][c].n > 0

\* the pattern of unit u matches one of the chunks its Write calls were given
MatchedChunk(u) ==
    /\ shc[u].readyPattern # <<>>
    /\ \E c \in DOMAIN wlog[u] : Match(shc[u].readyPattern[1], wlog[u][c].in)

\* C28: the pattern is matched chunk by chunk: a unit whose pattern matches
\* none of the chunks it was given, even if it matches two of them put
\* together, is not ready as long as its process runs; it is ready once its
\* Run has returned
C28_MatchIsPerChunk ==
    \A u \in Units :
        Writer(u) => (ready[u] <=> (MatchedChunk(u) \/ proc[u] = "exited"))

\* two chunks that hold the pattern together and not alone left the unit
\* not ready
C28_Witness ==
    \E u \in Units :
        /\ Len(wlog[u]) = 2 /\ shc[u].readyPattern # <<>>
        /\ Match(shc[u].readyPattern[1], wlog[u][1].in \o wlog[u][2].in)
        /\ ~MatchedChunk(u)
        /\ ~ready[u] /\ proc[u] = "running"

\* the state of the worker of unit u: Polling in its select, Starting once
\* checkDependencies let it start (ticker stopped, cmd.Run called), Running
\* while its process runs and until cmd.Run has returned; then how it ended:
\* Cancelled out of the select; DependencyError on an error of
\* checkDependencies; Succeeded when the process ended with status 0; and
\* when it did not, Interrupted if SIGINT had reached it and Failed if not;
\* Failed also when the process could not be started
WorkerState(pc, polled, ran, st, sg) ==
    CASE pc = "none" -> "None"
      [] pc = "poll" -> "Polling"
      [] pc = "run" -> "Starting"
      [] pc \in {"wait", "ret"} -> "Running"
      [] pc = "done" ->
            IF polled \in {"missing", "self"} THEN "DependencyError"
            ELSE IF ran = 0 THEN "Cancelled"
            ELSE IF st = "exit status 0" THEN "Succeeded"
            ELSE IF st = "none" THEN "Failed"
            ELSE IF sg = "live" THEN "Interrupted"
            ELSE "Failed"

StateOf(u) == WorkerState(wpc[u], lastPoll[u], runs[u], status[u], sig[u])
StateAfter(u) == WorkerState(wpc'[u], lastPoll'[u], runs'[u], status'[u], sig'[u])

TerminalStates == {"Cancelled", "DependencyError", "Succeeded", "Failed", "Interrupted"}

\* the result a terminal state stands for: the cancellation, the wrapped
\* error of checkDependencies, nil, or a wrapped error of cmd.Run
ResultFits(u) ==
    CASE StateOf(u) = "Cancelled" -> werr[u] = Canceled
      [] StateOf(u) = "DependencyError" ->
            werr[u].wrapped /\ werr[u].kind = lastPoll[u] /\ werr[u].cmd = cfg[u].name
      [] StateOf(u) = "Succeeded" -> werr[u] = NilErr
      [] StateOf(u) \in {"Failed", "Interrupted"} ->
            /\ werr[u].wrapped /\ werr[u].cmd = cfg[u].name
            /\ werr[u].kind = IF status[u] = "none" THEN "failed to start command"
                               ELSE status[u]
      [] OTHER -> TRUE

\* C26 as stated: the worker goes from Polling to Cancelled, DependencyError
\* or Starting, from Starting to Running only, and from Running to
\* Succeeded, Failed or Interrupted
C26_StartingThenRunning ==
    [][\A u \in Units :
          StateAfter(u) # StateOf(u) =>
             \/ StateOf(u) = "None" /\ StateAfter(u) = "Polling"
             \/ /\ StateOf(u) = "Polling"
                /\ StateAfter(u) \in {"Cancelled", "DependencyError", "Starting"}
             \/ StateOf(u) = "Starting" /\ StateAfter(u) = "Running"
             \/ /\ StateOf(u) = "Running"
                /\ StateAfter(u) \in {"Succeeded", "Failed", "Interrupted"}]_vars

\* C26: the worker goes from Polling to Cancelled, DependencyError or
\* Starting, from Starting to Running or, when the process cannot be
\* started, to Failed, and from Running to Succeeded, Failed or Interrupted;
\* it never leaves a terminal state nor goes back to Polling, and its
\* terminal state fixes its result, which is nil for Succeeded only
C26_WorkerStateMachine ==
    /\ [][\A u \in Units :
             StateAfter(u) # StateOf(u) =>
                \/ StateOf(u) = "None" /\ StateAfter(u) = "Polling"
                \/ /\ StateOf(u) = "Polling"
                   /\ StateAfter(u) \in {"Cancelled", "DependencyError", "Starting"}
                \/ StateOf(u) = "Starting" /\ StateAfter(u) \in {"Running", "Failed"}
                \/ /\ StateOf(u) = "Running"
                   /\ StateAfter(u) \in {"Succeeded", "Failed", "Interrupted"}]_vars
    /\ [](\A u \in Units :
             wpc[u] = "done" =>
                /\ StateOf(u) \in TerminalStates
                /\ ResultFits(u)
                /\ werr[u] = NilErr <=> StateOf(u) = "Succeeded")

\* RunContext returned with workers that ended Failed without a process,
\* and Interrupted
C26_Witness ==
    /\ rc = "returned"
    /\ \E u \in Units :
          /\ InGroup(u) /\ StateOf(u) = "Failed" /\ proc[u] = "nil"
          /\ werr[u].kind = "failed to start command"
    /\ \E u \in Units : InGroup(u) /\ StateOf(u) = "Interrupted"

\* checkDependencies would find every name of dependsOn in the index, none
\* of them the unit's own, and the units they name ready
DepsReady(u) ==
    \A i \in DOMAIN Deps(u) :
        /\ Deps(u)[i] \in DOMAIN namesToCmds
        /\ Deps(u)[i] # cfg[u].name
        /\ ready[namesToCmds[Deps(u)[i]]]

\* C30: a worker calls cmd.Run only in a tick of its select in which
\* checkDependencies found its dependencies ready, never before its first
\* tick, whether or not it has dependencies; and a tick of a polling worker
\* whose dependencies are all ready, the context not cancelled, stops the
\* polling and calls cmd.Run
C30_StartsOnTickOnly ==
    /\ [](\A u \in Units : (InGroup(u) /\ runs[u] > 0) => lastPoll[u] = "ok")
    /\ [][\A u \in Units :
             /\ runs'[u] # runs[u] =>
                   /\ PollTick(u) /\ DepsReady(u)
                   /\ runs'[u] = runs[u] + 1 /\ wpc'[u] = "run"
             /\ (PollTick(u) /\ lastPoll'[u] # "none" /\ DepsReady(u) /\ ~ctxDone) =>
                   wpc'[u] = "run" /\ runs'[u] = runs[u] + 1]_vars

\* a unit without dependencies and a unit that depends on it were started
\* by a tick, the context not cancelled
C30_Witness ==
    /\ ~ctxDone
    /\ \E u \in Units : \E v \in Units :
          /\ InGroup(u) /\ InGroup(v)
          /\ Deps(u) = <<>> /\ runs[u] = 1
          /\ Deps(v) = <<cfg[u].name>> /\ runs[v] = 1 /\ lastPoll[v] = "ok"

\* ----------------------------------------------------------------------
\* C31: Interrupt() on a unit whose process has not been started returns no
\* error, sends no signal and leaves the ready flag and the process handle
\* as they are (no unit without a process has a signal on record), and the
\* unit can be started afterwards as any other: once its worker has decided
\* to start it, cmd.Run can proceed, whatever Interrupt calls came before.
C31_InterruptBeforeStartIsNoOp ==
    [][\A u \in Units :
         /\ (intr'[u] # intr[u] /\ proc[u] = "nil") =>
               /\ interruptReturns(proc[u]) = {NilErr}
               /\ sig'[u] = sig[u]
               /\ ready'[u] = ready[u]
               /\ proc'[u] = proc[u]
               /\ wpc'[u] = wpc[u]
         /\ proc'[u] = "nil" => sig'[u] = "none"
         /\ wpc[u] = "run" => ENABLED Run(u)]_vars

\* a unit runs after the Group's user called SendInterrupts on the started
\* Group: Interrupt was called on it before it had a process, no signal went out
C31_Witness ==
    /\ calls > 0
    /\ ~ctxDone
    /\ \E u \in Units : intr[u] > 0 /\ sig[u] = "none" /\ proc[u] = "running"

\* ----------------------------------------------------------------------
\* C32: Group.Run relays the first interrupt signal. The first signal is never
\* left to the default behaviour: it cancels the context of Run, hence the
\* token of a RunContext that is waiting, and from then on, unless a later
\* signal ends the program first, Interrupt() gets called on every unit of
\* the Group and the registration is released; it is released only after the
\* context is done, and every signal that comes after the release gets the
\* default behaviour.
C32_FirstSignalIsRelayed ==
    /\ [][/\ (osSigs = <<>> /\ osSigs' # <<>>) =>
               /\ osSigs'[1] = "relayed"
               /\ notify' = "caught"
               /\ rc = "idle" => preCancelled'
               /\ rc = "wait" => ctxDone'
          /\ (osSigs' # osSigs /\ notify = "off") => osSigs'[Len(osSigs')] = "default"
          /\ (osSigs' # osSigs /\ notify # "off") => ~Killed'
          /\ (notify # "off" /\ notify' = "off") => notify = "caught"]_vars
    /\ (notify \in {"caught", "off"} /\ rc = "wait")
          ~> ((\A u \in Range(commands) : intr[u] > 0) \/ Killed)
    /\ (notify = "caught") ~> (notify = "off")

\* the first signal came while RunContext was waiting for running units, it
\* was relayed to each of them, and a second signal then ended the program
C32_Witness ==
    /\ osSigs = <<"relayed", "default">>
    /\ cancelledBy = "caller"
    /\ Len(commands) = NumUnits
    /\ \A u \in Range(commands) : sig[u] = "live"

\* ----------------------------------------------------------------------
\* C33: in one RunContext call every unit of the Group has one worker, and
\* the units that are not in the Group have none; a worker that has returned
\* stays so; every unit's process is started at most once; and a unit whose
\* worker ended in Cancelled or DependencyError has never been started and
\* has no process.
C33_OneWorkerOneStart ==
    /\ [](\A u \in Units :
            /\ wpc[u] # "none" <=> (rc # "idle" /\ u \in Range(commands))
            /\ runs[u] <= 1
            /\ StateOf(u) \in {"Cancelled", "DependencyError"} =>
                  runs[u] = 0 /\ proc[u] = "nil")
    /\ [][\A u \in Units :
            /\ wpc[u] = "done" => wpc'[u] = "done"
            /\ runs'[u] # runs[u] => (wpc[u] = "poll" /\ wpc'[u] = "run")
            /\ proc'[u] = "running" /\ proc[u] # "running" => runs[u] = 1 /\ wpc[u] = "run"]_vars

\* RunContext has returned: one worker was cancelled, another one found a
\* dependency error, and a unit was started and its process has ended
C33_Witness ==
    /\ rc = "returned"
    /\ \E u, v \in Range(commands) :
         /\ StateOf(u) \in {"Cancelled", "DependencyError"}
         /\ runs[v] = 1 /\ proc[v] = "exited"

\* ----------------------------------------------------------------------
\* C34: whatever the calls of AddCommands that come before, between and after
\* the steps of one RunContext call, once the workers are started every
\* command of the list (they all come from calls that returned nil) is in
\* the name index and has a worker; the list changes only in a call that
\* returns nil, which comes before hasStarted is set, and a call that
\* returns the already-started error leaves the list as it is.
C34_AddedCommandsAreRun ==
    /\ [](rc \in {"wait", "returned"} =>
            \A u \in Range(commands) :
                /\ cfg[u].name \in DOMAIN namesToCmds
                /\ namesToCmds[cfg[u].name] = u
                /\ wpc[u] # "none")
    /\ [](addRes = "already started" => rc # "idle")
    /\ [][/\ commands' # commands => (addRes' = "nil" /\ rc = "idle" /\ rc' = "idle")
          /\ (addRes' # addRes /\ addRes' = "already started") => commands' = commands]_vars

\* two calls added a command each before RunContext, a third one came while
\* RunContext was building its index and was refused, and both commands run
C34_Witness ==
    /\ addRes = "already started"
    /\ rc = "wait"
    /\ Len(commands) = NumUnits
    /\ Len(commands) > 1
    /\ \A u \in Range(commands) : proc[u] = "running"

\* ----------------------------------------------------------------------
\* the last unit of the command list that bears the name n
lastNamed(n) ==
    LET at == {i \in DOMAIN commands : cfg[commands[i]].name = n}
    IN commands[CHOOSE i \in at : \A j \in at : j <= i]

\* C35: when two units of the Group bear the same name, the index maps every
\* name to the last unit of the command list that bears it. A unit is started
\* only when the last bearer of each name of its dependsOn is ready, and its
\* worker goes on waiting only when the last bearer of one of them is not:
\* the readiness of the earlier bearer has no part in it. Every unit, the
\* earlier bearer too, has a worker.
C35_LastOfTheNameCounts ==
    /\ [](rc # "idle" =>
            \A u \in Range(commands) :
                /\ namesToCmds[cfg[u].name] = lastNamed(cfg[u].name)
                /\ wpc[u] # "none"
                /\ runs[u] > 0 =>
                      \A i \in DOMAIN Deps(u) :
                          /\ Deps(u)[i] \in DOMAIN namesToCmds
                          /\ ready[lastNamed(Deps(u)[i])])
    /\ [][\A u \in Units :
            (wpc[u] = "poll" /\ wpc'[u] = "poll" /\ lastPoll'[u] = "wait" /\ lastPoll[u] # "wait") =>
                \E i \in DOMAIN Deps(u) :
                    /\ Deps(u)[i] \in DOMAIN namesToCmds
                    /\ ~ready[lastNamed(Deps(u)[i])]]_vars

\* two units of the same name were both started, and a unit that depends on
\* the name was started when the later one was ready and the earlier one not
C35_Witness ==
    \E u, v, w \in Range(commands) :
        /\ u < v /\ cfg[u].name = cfg[v].name
        /\ Deps(w) = <<cfg[u].name>>
        /\ runs[u] = 1 /\ runs[v] = 1 /\ runs[w] = 1
        /\ proc[u] = "running" /\ ~ready[u] /\ ready[v]

\* ----------------------------------------------------------------------
\* the units on a dependency cycle, and those of them whose dependsOn holds
\* only names of other units of the Group
OnCycle(u) == InGroup(u) /\ onCycle(cfg, Len(commands), u)
NamesOthersOnly(u) ==
    \A i \in DOMAIN Deps(u) :
        /\ Deps(u)[i] # cfg[u].name
        /\ \E v \in Range(commands) : cfg[v].name = Deps(u)[i]

\* C36 as stated: no unit on a dependency cycle is ever started and none of
\* their workers reports a dependency error
C36_CycleUnitsOnlyWait ==
    \A u \in Units :
        OnCycle(u) => runs[u] = 0 /\ StateOf(u) # "DependencyError"

\* C36: the units on a dependency cycle whose dependsOn holds only names of
\* other units of the Group are never started and their workers report no
\* dependency error: they are Polling until they are Cancelled, which takes a
\* cancelled token, and with such a unit in the Group RunContext returns only
\* after the token was cancelled, by the caller or by another worker's error.
C36_CleanCycleUnitsOnlyWait ==
    \A u \in Units :
        (OnCycle(u) /\ NamesOthersOnly(u)) =>
            /\ runs[u] = 0 /\ proc[u] = "nil"
            /\ StateOf(u) \in {"None", "Polling", "Cancelled"}
            /\ lastPoll[u] \in {"none", "wait"}
            /\ StateOf(u) = "Cancelled" => ctxDone /\ werr[u] = Canceled
            /\ rc = "returned" => cancelledBy \in {"caller", "worker"}

\* RunContext returned after its caller cancelled the token: the workers of
\* two units that depend on each other had polled and waited, and were
\* cancelled
C36_Witness ==
    /\ rc = "returned"
    /\ cancelledBy = "caller"
    /\ \E u, v \in Units :
         /\ u # v
         /\ OnCycle(u) /\ NamesOthersOnly(u) /\ OnCycle(v) /\ NamesOthersOnly(v)
         /\ lastPoll[u] = "wait" /\ lastPoll[v] = "wait"
         /\ StateOf(u) = "Cancelled" /\ StateOf(v) = "Cancelled"

\* ----------------------------------------------------------------------
\* RunContext returned nil, every unit was started once and every worker
\* ended in Succeeded
AllSucceeded ==
    /\ rc = "returned"
    /\ result = NilErr
    /\ \A u \in Range(commands) : runs[u] = 1 /\ StateOf(u) = "Succeeded"

====
